---- MODULE Spec2Model ----
(***************************************************************************)
(* A model of the solver preparation code of elastic-thought (solver.go):  *)
(* the rewriting of the two caffe prototxt specifications, their upload to *)
(* cbfs and the update of the solver document (DownloadSpecToCbfs), the    *)
(* download of the training/test archives with the generation of the       *)
(* labelled tables of contents (SaveTrainTestData, addLabelsToToc,         *)
(* addParentDirToToc), and the cbfs:// url helpers.                        *)
(*                                                                         *)
(* Go strings are TLA+ strings (sequences of characters); the i-th         *)
(* character of s is SubSeq(s, i, i).                                      *)
(***************************************************************************)
EXTENDS Naturals, Sequences, FiniteSets, TLC

VARIABLES
    \* addLabelsToToc / addParentDirToToc
    tableOfContents,    \* the toc handed to the function under study
    subdirectory,       \* the dir argument of addParentDirToToc
    tocWithLabels,      \* first result of addLabelsToToc
    labels,             \* second result of addLabelsToToc (the label index)
    tocWithSubdir,      \* result of addParentDirToToc
    tocPc,              \* "input", "labelled", "prefixed" or "panic"
    \* SpecificationUrlPath / SpecificationNetUrlPath
    refSolver,          \* the solver whose urls are converted
    refWhich,           \* "spec" or "net": the url converted
    refPath,            \* the (path, error) returned
    refBack,            \* the cbfs url built again from the path
    refPc,              \* "input", "path" or "url"
    \* modifySolverSpec / modifySolverNetSpec
    cfgSource,          \* the prototxt handed to the function
    cfgWhich,           \* "solver" or "net": the function applied
    cfgResult,          \* the (bytes, error) returned
    cfgPc,              \* "input" or "done"
    \* DownloadSpecToCbfs
    web,                \* what the http servers serve, by url
    dbSolver,           \* the solver document in the database
    cbfsFiles,          \* the content of cbfs, by path
    job,                \* the solver the caller holds
    s,                  \* the receiver of the running call (a copy)
    specBytes,          \* the rewritten bytes about to be saved
    pc,                 \* where the running call is, "idle" between calls
    ret,                \* what the last call returned
    calls,              \* calls made
    before,             \* the solver document when the last call began
    rerun,              \* the last call was given a solver a call returned
    fault,              \* a server, cbfs or the database failed in the last call
    first,              \* urls and cbfs content after the first call that succeeded
    \* SaveTrainTestData
    archives,           \* the entry names of the two archives in cbfs
    asmSplit,           \* index of the artifact the loop is at
    asmPc,              \* the step the call is at, "done" once it returned
    asmToc,             \* tocWithSubdir of the artifact the loop is at
    trainingLabelIndex, \* the label index of the training artifact
    workFiles,          \* the toc files in the work directory, by path
    asmRet,             \* what the call returned
    asmLog              \* the steps made, in order, and whether each succeeded

tocVars == <<tableOfContents, subdirectory, tocWithLabels, labels, tocWithSubdir, tocPc>>

refVars == <<refSolver, refWhich, refPath, refBack, refPc>>

cfgVars == <<cfgSource, cfgWhich, cfgResult, cfgPc>>

prepVars == <<web, dbSolver, cbfsFiles, job, s, specBytes, pc, ret, calls,
              before, rerun, fault, first>>

asmVars == <<archives, asmSplit, asmPc, asmToc, trainingLabelIndex, workFiles,
             asmRet, asmLog>>

vars == <<tocVars, refVars, cfgVars, prepVars, asmVars>>

-----------------------------------------------------------------------------
(* Bounds of the model *)

\* longest table of contents handed to addLabelsToToc
MaxToc == 4

\* longest table of contents handed directly to addParentDirToToc
MaxDirToc == 2

\* most pieces a specification url is put together from
MaxChunks == 3

\* most layers of a net specification
MaxLayers == 2

\* most calls of DownloadSpecToCbfs
MaxCalls == 3

-----------------------------------------------------------------------------
(* Go's strings and path packages, as far as solver.go uses them *)

Char(str, i) == SubSeq(str, i, i)

\* strings.HasPrefix
HasPrefix(str, prefix) ==
    Len(str) >= Len(prefix) /\ SubSeq(str, 1, Len(prefix)) = prefix

\* strings.Index: position of the first occurrence of sep in str, 0 when absent
Index(str, sep) ==
    LET hits == {i \in 1..(Len(str) + 1) : i + Len(sep) - 1 <= Len(str)
                                        /\ SubSeq(str, i, i + Len(sep) - 1) = sep}
    IN IF hits = {} THEN 0 ELSE CHOOSE i \in hits : \A j \in hits : i <= j

\* strings.LastIndex
LastIndex(str, sep) ==
    LET hits == {i \in 1..(Len(str) + 1) : i + Len(sep) - 1 <= Len(str)
                                        /\ SubSeq(str, i, i + Len(sep) - 1) = sep}
    IN IF hits = {} THEN 0 ELSE CHOOSE i \in hits : \A j \in hits : i >= j

\* strings.Split(s, sep) for a non-empty sep: every piece between separators
RECURSIVE Split(_, _)
Split(str, sep) ==
    LET i == Index(str, sep)
    IN IF i = 0 THEN <<str>>
       ELSE <<SubSeq(str, 1, i - 1)>> \o Split(SubSeq(str, i + Len(sep), Len(str)), sep)

\* strings.Join
RECURSIVE JoinStrings(_, _)
JoinStrings(elems, sep) ==
    IF elems = <<>> THEN ""
    ELSE IF Len(elems) = 1 THEN elems[1]
    ELSE elems[1] \o sep \o JoinStrings(Tail(elems), sep)

\* strings.Replace(s, old, "", -1): every occurrence of old removed
RECURSIVE ReplaceAll(_, _)
ReplaceAll(str, old) ==
    LET i == Index(str, old)
    IN IF i = 0 THEN str
       ELSE SubSeq(str, 1, i - 1) \o ReplaceAll(SubSeq(str, i + Len(old), Len(str)), old)

\* strings.Replace(s, old, "", 1): the first occurrence of old removed
ReplaceFirst(str, old) ==
    LET i == Index(str, old)
    IN IF i = 0 THEN str
       ELSE SubSeq(str, 1, i - 1) \o SubSeq(str, i + Len(old), Len(str))

\* the element stack of path.Clean: "" and "." are dropped, ".." pops the
\* last element unless only ".." elements (or nothing) are left
RECURSIVE CleanElems(_, _, _)
CleanElems(elems, out, rooted) ==
    IF elems = <<>> THEN out
    ELSE LET e == Head(elems)
             rest == Tail(elems)
         IN IF e = "" \/ e = "." THEN CleanElems(rest, out, rooted)
            ELSE IF e = ".."
                 THEN IF out # <<>> /\ out[Len(out)] # ".."
                      THEN CleanElems(rest, SubSeq(out, 1, Len(out) - 1), rooted)
                      ELSE IF rooted THEN CleanElems(rest, out, rooted)
                           ELSE CleanElems(rest, Append(out, ".."), rooted)
                 ELSE CleanElems(rest, Append(out, e), rooted)

\* path.Clean
Clean(p) ==
    IF p = "" THEN "."
    ELSE LET rooted == Char(p, 1) = "/"
             out == CleanElems(Split(p, "/"), <<>>, rooted)
         IN IF rooted THEN "/" \o JoinStrings(out, "/")
            ELSE IF out = <<>> THEN "." ELSE JoinStrings(out, "/")

\* path.Dir: everything up to the last slash, cleaned
Dir(p) == Clean(SubSeq(p, 1, LastIndex(p, "/")))

\* path.Join(a, b)
Join(a, b) ==
    IF a # "" THEN Clean(a \o "/" \o b)
    ELSE IF b # "" THEN Clean(b)
    ELSE ""

\* fmt's %v of a non-negative int
Digit(d) == SubSeq("0123456789", d + 1, d + 1)

RECURSIVE Itoa(_)
Itoa(n) == IF n < 10 THEN Digit(n) ELSE Itoa(n \div 10) \o Digit(n % 10)

SeqsUpTo(S, n) == UNION {[1..k -> S] : k \in 0..n}

\* containsString
containsString(list, str) == \E i \in 1..Len(list) : list[i] = str

-----------------------------------------------------------------------------
(* The parts of the state a specification does not use *)

TocIdle ==
    /\ tableOfContents = <<>>
    /\ subdirectory = ""
    /\ tocWithLabels = <<>>
    /\ labels = <<>>
    /\ tocWithSubdir = <<>>
    /\ tocPc = "idle"

RefIdle ==
    /\ refSolver = [SpecificationUrl |-> "", SpecificationNetUrl |-> ""]
    /\ refWhich = ""
    /\ refPath = [err |-> FALSE, path |-> ""]
    /\ refBack = ""
    /\ refPc = "idle"

CfgIdle ==
    /\ cfgSource = [kind |-> "nil", canonical |-> FALSE, msg |-> [none |-> TRUE]]
    /\ cfgWhich = ""
    /\ cfgResult = [err |-> FALSE,
                    bytes |-> [kind |-> "nil", canonical |-> FALSE, msg |-> [none |-> TRUE]]]
    /\ cfgPc = "idle"

NoSolver == [Id |-> "", SpecificationUrl |-> "", SpecificationNetUrl |-> "", Rev |-> 0]

PrepIdle ==
    /\ web = <<>>
    /\ dbSolver = NoSolver
    /\ cbfsFiles = <<>>
    /\ job = NoSolver
    /\ s = NoSolver
    /\ specBytes = [kind |-> "nil", canonical |-> FALSE, msg |-> [none |-> TRUE]]
    /\ pc = "off"
    /\ ret = [state |-> "none", solver |-> NoSolver]
    /\ calls = 0
    /\ before = NoSolver
    /\ rerun = FALSE
    /\ fault = FALSE
    /\ first = [set |-> FALSE, solver |-> NoSolver, files |-> <<>>]

AsmIdle ==
    /\ archives = <<>>
    /\ asmSplit = 0
    /\ asmPc = "off"
    /\ asmToc = <<>>
    /\ trainingLabelIndex = <<>>
    /\ workFiles = <<>>
    /\ asmRet = [state |-> "none", labels |-> <<>>]
    /\ asmLog = <<>>

-----------------------------------------------------------------------------
(* The tables of contents: addLabelsToToc, addParentDirToToc *)

\* the subdirectories the two archives are extracted to
TRAINING_DIR == "training-data"
TESTING_DIR == "testing-data"

\* the label of the entry under dir, from the label and directory of the
\* entry before it (currentDirectory is "" before the first entry)
NextLabelIndexNoFirst(currentDirectory, labelIndex, dir) ==
    IF dir = currentDirectory THEN labelIndex ELSE labelIndex + 1

NextLabelIndex(currentDirectory, labelIndex, dir) ==
    IF currentDirectory = ""
    THEN labelIndex
    ELSE IF dir = currentDirectory THEN labelIndex ELSE labelIndex + 1

\* the label index after an entry under dir
NextLabelsAlways(labelList, dir) == Append(labelList, dir)

NextLabels(labelList, dir) ==
    IF ~containsString(labelList, dir) THEN Append(labelList, dir) ELSE labelList

\* one iteration of the loop of addLabelsToToc
addLabelsStep(st, tocEntry) ==
    LET dir == Dir(tocEntry)
        labelIndex == NextLabelIndex(st.currentDirectory, st.labelIndex, dir)
    IN [currentDirectory |-> dir,
        labelIndex       |-> labelIndex,
        labels           |-> NextLabels(st.labels, dir),
        tocWithLabels    |-> Append(st.tocWithLabels,
                                    tocEntry \o " " \o Itoa(labelIndex))]

RECURSIVE addLabelsLoop(_, _)
addLabelsLoop(toc, st) ==
    IF toc = <<>> THEN st ELSE addLabelsLoop(Tail(toc), addLabelsStep(st, Head(toc)))

\* addLabelsToToc: the toc with labels and the label index
addLabelsToToc(toc) ==
    LET st == addLabelsLoop(toc, [currentDirectory |-> "", labelIndex |-> 0,
                                  labels |-> <<>>, tocWithLabels |-> <<>>])
    IN [tocWithLabels |-> st.tocWithLabels, labels |-> st.labels]

\* one line of addParentDirToToc; components[1] of a line without a space is
\* an index out of range
addParentDirLine(tocEntry, dir) ==
    LET components == Split(tocEntry, " ")
    IN IF Len(components) < 2
       THEN [panic |-> TRUE, line |-> ""]
       ELSE [panic |-> FALSE,
             line  |-> Join(dir, components[1]) \o " " \o components[2]]

\* addParentDirToToc: a panic on the first line without a label, else the lines
addParentDirToToc(toc, dir) ==
    LET lines == [i \in 1..Len(toc) |-> addParentDirLine(toc[i], dir)]
    IN IF \E i \in 1..Len(toc) : lines[i].panic
       THEN [panic |-> TRUE, toc |-> <<>>]
       ELSE [panic |-> FALSE, toc |-> [i \in 1..Len(toc) |-> lines[i].line]]

\* entry names of an archive
EntryPaths == {"A/x.png", "A/y.png", "B/z.png", "A/w.png", "./A/q.png"}

\* lines handed directly to addParentDirToToc
TocLines == {"a/b.png 0", "Q/Verdana-5-0.png 27", "A/my file.png 0", "a/b.png",
             "", "./a//b.png 1", "../b.png 2", " 3", "a/b.png  4", "R/Arial-5-0.png 28",
             "B/z.png 1"}

\* addLabelsToToc on any toc of entry names
ApplyAddLabelsToToc ==
    /\ tocPc = "input"
    /\ LET r == addLabelsToToc(tableOfContents)
       IN /\ tocWithLabels' = r.tocWithLabels
          /\ labels' = r.labels
    /\ tocPc' = "labelled"
    /\ UNCHANGED <<tableOfContents, subdirectory, tocWithSubdir>>
    /\ UNCHANGED <<refVars, cfgVars, prepVars, asmVars>>

\* addParentDirToToc on the toc with labels, for either subdirectory
ApplyAddParentDirToToc ==
    /\ tocPc = "labelled"
    /\ \E dir \in {TRAINING_DIR, TESTING_DIR} :
        LET r == addParentDirToToc(tocWithLabels, dir)
        IN /\ subdirectory' = dir
           /\ tocWithSubdir' = r.toc
           /\ tocPc' = IF r.panic THEN "panic" ELSE "prefixed"
    /\ UNCHANGED <<tableOfContents, tocWithLabels, labels>>
    /\ UNCHANGED <<refVars, cfgVars, prepVars, asmVars>>

InitToc ==
    /\ tableOfContents \in SeqsUpTo(EntryPaths, MaxToc)
    /\ subdirectory = ""
    /\ tocWithLabels = <<>>
    /\ labels = <<>>
    /\ tocWithSubdir = <<>>
    /\ tocPc = "input"
    /\ RefIdle
    /\ CfgIdle
    /\ PrepIdle
    /\ AsmIdle

NextToc == ApplyAddLabelsToToc \/ ApplyAddParentDirToToc

\* addLabelsToToc followed by addParentDirToToc, as in SaveTrainTestData
SpecToc == InitToc /\ [][NextToc]_vars

\* addParentDirToToc on any toc of lines
InitParentDir ==
    /\ tableOfContents \in SeqsUpTo(TocLines, MaxDirToc)
    /\ subdirectory = ""
    /\ tocWithLabels = tableOfContents
    /\ labels = <<>>
    /\ tocWithSubdir = <<>>
    /\ tocPc = "labelled"
    /\ RefIdle
    /\ CfgIdle
    /\ PrepIdle
    /\ AsmIdle

SpecParentDir == InitParentDir /\ [][ApplyAddParentDirToToc]_vars

-----------------------------------------------------------------------------
(* Properties of the tables of contents *)

\* number of directory changes up to entry i
DirChanges(toc, i) ==
    Cardinality({j \in 2..i : Dir(toc[j]) # Dir(toc[j - 1])})

DirSet(toc) == {Dir(toc[i]) : i \in 1..Len(toc)}

FirstSeen(toc, d) ==
    CHOOSE i \in 1..Len(toc) : Dir(toc[i]) = d /\ \A j \in 1..(i - 1) : Dir(toc[j]) # d

Labelled == tocPc \in {"labelled", "prefixed"}

\* C1: addLabelsToToc emits one line per entry, in order, labelled 0 for the
\* first entry and, for a later entry, the label of the entry before it plus 1
\* when its parent directory differs from that entry's and plus 0 otherwise;
\* the label index is the distinct parent directories in first-seen order;
\* A/x.png, A/y.png, B/z.png, A/w.png gives 0, 0, 1, 2 and [A, B].
C1_LabelsCountDirectoryChanges ==
    Labelled =>
        /\ Len(tocWithLabels) = Len(tableOfContents)
        /\ \A i \in 1..Len(tableOfContents) :
            tocWithLabels[i] =
                tableOfContents[i] \o " " \o Itoa(DirChanges(tableOfContents, i))
        /\ {labels[i] : i \in 1..Len(labels)} = DirSet(tableOfContents)
        /\ \A i, j \in 1..Len(labels) :
            i < j => FirstSeen(tableOfContents, labels[i])
                        < FirstSeen(tableOfContents, labels[j])
        /\ tableOfContents = <<"A/x.png", "A/y.png", "B/z.png", "A/w.png">> =>
            /\ tocWithLabels = <<"A/x.png 0", "A/y.png 0", "B/z.png 1", "A/w.png 2">>
            /\ labels = <<"A", "B">>

C1_Witness ==
    /\ tocPc = "labelled"
    /\ tableOfContents = <<"A/x.png", "A/y.png", "B/z.png", "A/w.png">>
    /\ labels = <<"A", "B">>

\* the entries of each parent directory are contiguous
Grouped(toc) ==
    \A i, j, k \in 1..Len(toc) :
        (i < j /\ j < k /\ Dir(toc[i]) = Dir(toc[k])) => Dir(toc[j]) = Dir(toc[i])

\* the labels l for which line i is "<entry i> <l>"
LabelsOfLine(i) ==
    {l \in 0..Len(tableOfContents) :
        tocWithLabels[i] = tableOfContents[i] \o " " \o Itoa(l)}

\* C10: on a toc grouped by directory, every emitted label is an index of the
\* label index, the label index holds at that index the parent directory of
\* the entry, and there are as many distinct labels as label index entries.
C10_LabelIndexIsIndexedByLabel ==
    (Labelled /\ Grouped(tableOfContents)) =>
        /\ \A i \in 1..Len(tableOfContents) :
            \E l \in LabelsOfLine(i) :
                /\ l < Len(labels)
                /\ labels[l + 1] = Dir(tableOfContents[i])
        /\ Cardinality(UNION {LabelsOfLine(i) : i \in 1..Len(tableOfContents)})
            = Len(labels)

C10_Witness ==
    /\ tocPc = "labelled"
    /\ tableOfContents = <<"A/x.png", "A/y.png", "B/z.png">>
    /\ Grouped(tableOfContents)
    /\ tocWithLabels[3] = "B/z.png 1"

\* C9: addParentDirToToc never fails, returns as many lines as it was given,
\* each "<path> <label>" turned into "<subdir>/<path> <label>", whatever the
\* lines (a path with a space, a line without a label), and leaves its
\* argument as it was.
C9_AddParentDirIsTotal ==
    subdirectory # "" =>
        /\ tocPc = "prefixed"
        /\ Len(tocWithSubdir) = Len(tocWithLabels)
        /\ \A i \in 1..Len(tocWithLabels) :
            tocWithSubdir[i] = subdirectory \o "/" \o tocWithLabels[i]
        /\ tocWithLabels = tableOfContents

-----------------------------------------------------------------------------
(* The cbfs urls: SpecificationUrlPath, SpecificationNetUrlPath *)

CBFS_URI_PREFIX == "cbfs://"

\* the tail of both methods: an error unless specUrl starts with the prefix,
\* else specUrl without the first occurrence of the prefix
UrlPath(specUrl) ==
    IF ~HasPrefix(specUrl, CBFS_URI_PREFIX)
    THEN [err |-> TRUE, path |-> ""]
    ELSE [err |-> FALSE, path |-> ReplaceFirst(specUrl, CBFS_URI_PREFIX)]

SpecificationUrlPath(solver) == UrlPath(solver.SpecificationUrl)

SpecificationNetUrlPath(solver) == UrlPath(solver.SpecificationNetUrl)

\* the cbfs url of a path, as DownloadSpecToCbfs builds it
CbfsUrl(destPath) == CBFS_URI_PREFIX \o destPath

RECURSIVE Concat(_)
Concat(chunks) == IF chunks = <<>> THEN "" ELSE Head(chunks) \o Concat(Tail(chunks))

RefChunks == {"cbfs://", "cbfs:/", "/", "foo"}

RefStrings == {Concat(cs) : cs \in SeqsUpTo(RefChunks, MaxChunks)}

NetRefStrings == {Concat(cs) : cs \in SeqsUpTo(RefChunks, MaxChunks - 1)}

ApplySpecificationUrlPath ==
    /\ refPc = "input"
    /\ refWhich' = "spec"
    /\ refPath' = SpecificationUrlPath(refSolver)
    /\ refPc' = "path"
    /\ UNCHANGED <<refSolver, refBack>>
    /\ UNCHANGED <<tocVars, cfgVars, prepVars, asmVars>>

ApplySpecificationNetUrlPath ==
    /\ refPc = "input"
    /\ refWhich' = "net"
    /\ refPath' = SpecificationNetUrlPath(refSolver)
    /\ refPc' = "path"
    /\ UNCHANGED <<refSolver, refBack>>
    /\ UNCHANGED <<tocVars, cfgVars, prepVars, asmVars>>

ApplyCbfsUrl ==
    /\ refPc = "path"
    /\ ~refPath.err
    /\ refBack' = CbfsUrl(refPath.path)
    /\ refPc' = "url"
    /\ UNCHANGED <<refSolver, refWhich, refPath>>
    /\ UNCHANGED <<tocVars, cfgVars, prepVars, asmVars>>

InitRef ==
    /\ refSolver \in [SpecificationUrl : RefStrings, SpecificationNetUrl : NetRefStrings]
    /\ refWhich = ""
    /\ refPath = [err |-> FALSE, path |-> ""]
    /\ refBack = ""
    /\ refPc = "input"
    /\ TocIdle
    /\ CfgIdle
    /\ PrepIdle
    /\ AsmIdle

NextRef == ApplySpecificationUrlPath \/ ApplySpecificationNetUrlPath \/ ApplyCbfsUrl

SpecRef == InitRef /\ [][NextRef]_vars

\* the url the method was applied to
RefInput ==
    IF refWhich = "spec" THEN refSolver.SpecificationUrl ELSE refSolver.SpecificationNetUrl

-----------------------------------------------------------------------------
(* The prototxt specifications: modifySolverSpec, modifySolverNetSpec *)

\* A prototxt is the message it spells (kind: whether it parses as a
\* SolverParameter, as a NetParameter, or not at all) and whether it is
\* written the way proto.MarshalText writes a message.
NoBytes == [kind |-> "nil", canonical |-> FALSE, msg |-> [none |-> TRUE]]

Garbage == [kind |-> "garbage", canonical |-> FALSE, msg |-> [none |-> TRUE]]

\* proto.UnmarshalText into a message of the given kind
UnmarshalText(text, kind) ==
    IF text.kind = kind THEN [err |-> FALSE, msg |-> text.msg]
    ELSE [err |-> TRUE, msg |-> [none |-> TRUE]]

\* proto.MarshalText
MarshalText(msg, kind) == [kind |-> kind, canonical |-> TRUE, msg |-> msg]

\* an optional field that is not set
Unset == "<unset>"

\* file names the training job is run with
TRAINING_INDEX == "training"
TESTING_INDEX == "testing"

\* the fields of a SolverParameter other than net and snapshot_prefix
OtherSolverFields == {"MaxIter", "SolverMode"}

SolverParameters ==
    [Net : {Unset, "net.prototxt", "solver-net.prototxt"},
     SnapshotPrefix : {Unset, "snap/iter", "snapshot"},
     MaxIter : {Unset, "1000"},
     SolverMode : {Unset, "GPU"}]

SolverTexts == [kind : {"solver"}, canonical : BOOLEAN, msg : SolverParameters]

\* the two assignments of modifySolverSpec
SetSolverFieldsNetOnly(solverParam) ==
    [solverParam EXCEPT !.Net = "solver-net.prototxt"]

SetSolverFields(solverParam) ==
    [solverParam EXCEPT !.Net = "solver-net.prototxt",
                        !.SnapshotPrefix = "snapshot"]

modifySolverSpec(source) ==
    LET parsed == UnmarshalText(source, "solver")
    IN IF parsed.err THEN [err |-> TRUE, bytes |-> NoBytes]
       ELSE [err |-> FALSE,
             bytes |-> MarshalText(SetSolverFields(parsed.msg), "solver")]

isTrainingPhase(layer) ==
    \E i \in 1..Len(layer.Include) : layer.Include[i] = "TRAIN"

isTestingPhase(layer) ==
    \E i \in 1..Len(layer.Include) : layer.Include[i] = "TEST"

\* the body of the loop of modifySolverNetSpec with the two ifs of each case
\* the other way round
SetLayerSourceTrainLast(layerParam) ==
    IF layerParam.Type = "IMAGE_DATA"
    THEN LET a == IF isTestingPhase(layerParam)
                  THEN [layerParam EXCEPT !.ImageDataSource = TESTING_INDEX]
                  ELSE layerParam
         IN IF isTrainingPhase(a)
            THEN [a EXCEPT !.ImageDataSource = TRAINING_INDEX] ELSE a
    ELSE IF layerParam.Type = "DATA"
    THEN LET a == IF isTestingPhase(layerParam)
                  THEN [layerParam EXCEPT !.DataSource = TESTING_DIR]
                  ELSE layerParam
         IN IF isTrainingPhase(a)
            THEN [a EXCEPT !.DataSource = TRAINING_DIR] ELSE a
    ELSE layerParam

\* the body of the loop of modifySolverNetSpec
SetLayerSource(layerParam) ==
    IF layerParam.Type = "IMAGE_DATA"
    THEN LET a == IF isTrainingPhase(layerParam)
                  THEN [layerParam EXCEPT !.ImageDataSource = TRAINING_INDEX]
                  ELSE layerParam
         IN IF isTestingPhase(a)
            THEN [a EXCEPT !.ImageDataSource = TESTING_INDEX] ELSE a
    ELSE IF layerParam.Type = "DATA"
    THEN LET a == IF isTrainingPhase(layerParam)
                  THEN [layerParam EXCEPT !.DataSource = TRAINING_DIR]
                  ELSE layerParam
         IN IF isTestingPhase(a)
            THEN [a EXCEPT !.DataSource = TESTING_DIR] ELSE a
    ELSE layerParam

modifySolverNetSpec(sourceBytes) ==
    LET parsed == UnmarshalText(sourceBytes, "net")
    IN IF parsed.err THEN [err |-> TRUE, bytes |-> NoBytes]
       ELSE LET layers == parsed.msg.Layers
                modified == [i \in 1..Len(layers) |-> SetLayerSource(layers[i])]
            IN [err |-> FALSE,
                bytes |-> MarshalText([parsed.msg EXCEPT !.Layers = modified], "net")]

\* the layers of a net: a type, the phases of its include rules, the source
\* of its image_data_param and of its data_param, its name
NetLayers ==
    [Type : {"IMAGE_DATA", "DATA", "CONVOLUTION"},
     Include : SeqsUpTo({"TRAIN", "TEST"}, 2),
     ImageDataSource : {"images.txt"},
     DataSource : {"images_lmdb"},
     Name : {"layer"}]

NetParameters == [Name : {"net"}, Layers : SeqsUpTo(NetLayers, MaxLayers)]

NetTexts == [kind : {"net"}, canonical : BOOLEAN, msg : NetParameters]

ApplyModifySolverSpec ==
    /\ cfgPc = "input"
    /\ cfgWhich' = "solver"
    /\ cfgResult' = modifySolverSpec(cfgSource)
    /\ cfgPc' = "done"
    /\ UNCHANGED cfgSource
    /\ UNCHANGED <<tocVars, refVars, prepVars, asmVars>>

ApplyModifySolverNetSpec ==
    /\ cfgPc = "input"
    /\ cfgWhich' = "net"
    /\ cfgResult' = modifySolverNetSpec(cfgSource)
    /\ cfgPc' = "done"
    /\ UNCHANGED cfgSource
    /\ UNCHANGED <<tocVars, refVars, prepVars, asmVars>>

InitRewrite ==
    /\ cfgSource \in SolverTexts \cup NetTexts \cup {Garbage}
    /\ cfgWhich = ""
    /\ cfgResult = [err |-> FALSE, bytes |-> NoBytes]
    /\ cfgPc = "input"
    /\ TocIdle
    /\ RefIdle
    /\ PrepIdle
    /\ AsmIdle

NextRewrite == ApplyModifySolverSpec \/ ApplyModifySolverNetSpec

SpecRewrite == InitRewrite /\ [][NextRewrite]_vars

\* C7: modifySolverSpec returns a SolverParameter whose net is exactly
\* solver-net.prototxt and whose snapshot_prefix is exactly snapshot, whatever
\* they were, with every other field as in the input.
C7_SolverSpecFields ==
    (cfgPc = "done" /\ cfgWhich = "solver" /\ cfgSource.kind = "solver") =>
        /\ ~cfgResult.err
        /\ LET out == UnmarshalText(cfgResult.bytes, "solver")
           IN /\ ~out.err
              /\ out.msg.Net = "solver-net.prototxt"
              /\ out.msg.SnapshotPrefix = "snapshot"
              /\ DOMAIN out.msg = DOMAIN cfgSource.msg
              /\ \A f \in OtherSolverFields : out.msg[f] = cfgSource.msg[f]

C7_Witness ==
    /\ cfgPc = "done"
    /\ cfgWhich = "solver"
    /\ cfgSource.kind = "solver"
    /\ cfgSource.msg.Net = "net.prototxt"
    /\ cfgSource.msg.SnapshotPrefix = Unset
    /\ cfgSource.msg.MaxIter = "1000"
    /\ ~cfgResult.err

\* a layer has an include rule that names the phase
InPhase(layer, phase) == phase \in {layer.Include[i] : i \in 1..Len(layer.Include)}

\* the source a layer is to end with: the testing name in the test phase, else
\* the training name in the train phase, else its own
SourceWanted(layer, own, training, testing) ==
    IF InPhase(layer, "TEST") THEN testing
    ELSE IF InPhase(layer, "TRAIN") THEN training
    ELSE own

\* C6: modifySolverNetSpec returns as many layers, in the same order, each
\* equal to its input layer but for the source: of an image-data layer the
\* training index in the train phase only and the testing index in the test
\* phase (also in both), of a data layer the training resp. testing directory
\* by the same rule, and as it was in neither phase or for another type.
C6_NetSpecSources ==
    (cfgPc = "done" /\ cfgWhich = "net" /\ cfgSource.kind = "net") =>
        /\ ~cfgResult.err
        /\ LET in == cfgSource.msg.Layers
               out == UnmarshalText(cfgResult.bytes, "net").msg.Layers
           IN /\ Len(out) = Len(in)
              /\ \A i \in 1..Len(in) :
                    out[i] =
                        [in[i] EXCEPT
                            !.ImageDataSource =
                                IF in[i].Type = "IMAGE_DATA"
                                THEN SourceWanted(in[i], @, TRAINING_INDEX, TESTING_INDEX)
                                ELSE @,
                            !.DataSource =
                                IF in[i].Type = "DATA"
                                THEN SourceWanted(in[i], @, TRAINING_DIR, TESTING_DIR)
                                ELSE @]

C6_Witness ==
    /\ cfgPc = "done"
    /\ cfgWhich = "net"
    /\ cfgSource.kind = "net"
    /\ Len(cfgSource.msg.Layers) = 2
    /\ cfgSource.msg.Layers[1].Type = "IMAGE_DATA"
    /\ cfgSource.msg.Layers[1].Include = <<"TRAIN", "TEST">>
    /\ cfgSource.msg.Layers[2].Type = "DATA"
    /\ cfgSource.msg.Layers[2].Include = <<"TRAIN">>
    /\ UnmarshalText(cfgResult.bytes, "net").msg.Layers[1].ImageDataSource = TESTING_INDEX
    /\ UnmarshalText(cfgResult.bytes, "net").msg.Layers[2].DataSource = TRAINING_DIR

-----------------------------------------------------------------------------
(* DownloadSpecToCbfs: rewrite both specifications, save them to cbfs, *)
(* save the solver                                                       *)

\* the solver prepared, and where its specifications are first served
SolverId == "solver1"
SolverSpecUrl == "http://host/solver.prototxt"
NetSpecUrl == "http://host/net.prototxt"

SolverDestPath(id) == id \o "/solver.prototxt"
NetDestPath(id) == id \o "/solver-net.prototxt"

CbfsPaths == {SolverDestPath(SolverId), NetDestPath(SolverId)}

\* what the two servers may serve
SolverPages ==
    {[kind |-> "solver", canonical |-> FALSE,
      msg |-> [Net |-> "net.prototxt", SnapshotPrefix |-> "snap/iter",
               MaxIter |-> "1000", SolverMode |-> "GPU"]],
     [kind |-> "solver", canonical |-> TRUE,
      msg |-> [Net |-> Unset, SnapshotPrefix |-> Unset,
               MaxIter |-> "1000", SolverMode |-> Unset]],
     Garbage}

TrainLayer == [Type |-> "IMAGE_DATA", Include |-> <<"TRAIN">>,
               ImageDataSource |-> "images.txt", DataSource |-> "images_lmdb",
               Name |-> "layer"]

TestLayer == [TrainLayer EXCEPT !.Include = <<"TEST">>]

NetPages ==
    {[kind |-> "net", canonical |-> FALSE,
      msg |-> [Name |-> "net", Layers |-> <<TrainLayer, TestLayer>>]],
     [kind |-> "net", canonical |-> TRUE,
      msg |-> [Name |-> "net", Layers |-> <<[TrainLayer EXCEPT !.Type = "DATA"]>>]],
     Garbage}

\* getUrlContent: a GET of the url; an error when the server is down or
\* answers another status than 200, and for a url no http server serves
getUrlContent(pages, url, up) ==
    IF up /\ url \in DOMAIN pages
    THEN [err |-> FALSE, bytes |-> pages[url]]
    ELSE [err |-> TRUE, bytes |-> NoBytes]

getModifiedSolverSpec(pages, solver, up) ==
    LET content == getUrlContent(pages, solver.SpecificationUrl, up)
    IN IF content.err THEN [err |-> TRUE, bytes |-> NoBytes]
       ELSE modifySolverSpec(content.bytes)

getModifiedSolverNetSpec(pages, solver, up) ==
    LET content == getUrlContent(pages, solver.SpecificationNetUrl, up)
    IN IF content.err THEN [err |-> TRUE, bytes |-> NoBytes]
       ELSE modifySolverNetSpec(content.bytes)

\* saveToCbfs with the error of cbfs.Put dropped
saveToCbfsDropErr(files, destPath, bytes, ok) ==
    IF ok THEN [err |-> FALSE, files |-> [files EXCEPT ![destPath] = bytes]]
    ELSE [err |-> FALSE, files |-> files]

\* saveToCbfs: cbfs.Put stores the bytes under destPath or fails
saveToCbfs(files, destPath, bytes, ok) ==
    IF ok THEN [err |-> FALSE, files |-> [files EXCEPT ![destPath] = bytes]]
    ELSE [err |-> TRUE, files |-> files]

\* db.Edit: the document is replaced, under a new revision, when the database
\* answers and the revision given is the stored one
dbEdit(doc, solver, ok) ==
    IF ok /\ solver.Rev = doc.Rev
    THEN [err |-> FALSE, doc |-> [solver EXCEPT !.Rev = doc.Rev + 1]]
    ELSE [err |-> TRUE, doc |-> doc]

\* a return with an error
Fail ==
    /\ ret' = [state |-> "err", solver |-> NoSolver]
    /\ pc' = "idle"

\* the caller hands the solver it holds to DownloadSpecToCbfs
Call ==
    /\ pc = "idle"
    /\ calls < MaxCalls
    /\ calls' = calls + 1
    /\ s' = job
    /\ before' = dbSolver
    /\ rerun' = first.set
    /\ fault' = FALSE
    /\ ret' = [state |-> "none", solver |-> NoSolver]
    /\ pc' = "getSolverSpec"
    /\ UNCHANGED <<web, dbSolver, cbfsFiles, job, specBytes, first>>
    /\ UNCHANGED <<tocVars, refVars, cfgVars, asmVars>>

GetSolverSpec ==
    /\ pc = "getSolverSpec"
    /\ \E up \in BOOLEAN :
        LET r == getModifiedSolverSpec(web, s, up)
        IN /\ fault' = (fault \/ ~up)
           /\ \/ r.err /\ Fail /\ UNCHANGED specBytes
              \/ ~r.err /\ specBytes' = r.bytes /\ pc' = "saveSolverSpec"
                        /\ UNCHANGED ret
    /\ UNCHANGED <<web, dbSolver, cbfsFiles, job, s, calls, before, rerun, first>>
    /\ UNCHANGED <<tocVars, refVars, cfgVars, asmVars>>

SaveSolverSpec ==
    /\ pc = "saveSolverSpec"
    /\ \E ok \in BOOLEAN :
        LET destPath == SolverDestPath(s.Id)
            r == saveToCbfs(cbfsFiles, destPath, specBytes, ok)
        IN /\ fault' = (fault \/ ~ok)
           /\ cbfsFiles' = r.files
           /\ \/ r.err /\ Fail /\ UNCHANGED s
              \/ ~r.err /\ s' = [s EXCEPT !.SpecificationUrl = CbfsUrl(destPath)]
                        /\ pc' = "getNetSpec" /\ UNCHANGED ret
    /\ UNCHANGED <<web, dbSolver, job, specBytes, calls, before, rerun, first>>
    /\ UNCHANGED <<tocVars, refVars, cfgVars, asmVars>>

GetNetSpec ==
    /\ pc = "getNetSpec"
    /\ \E up \in BOOLEAN :
        LET r == getModifiedSolverNetSpec(web, s, up)
        IN /\ fault' = (fault \/ ~up)
           /\ \/ r.err /\ Fail /\ UNCHANGED specBytes
              \/ ~r.err /\ specBytes' = r.bytes /\ pc' = "saveNetSpec"
                        /\ UNCHANGED ret
    /\ UNCHANGED <<web, dbSolver, cbfsFiles, job, s, calls, before, rerun, first>>
    /\ UNCHANGED <<tocVars, refVars, cfgVars, asmVars>>

SaveNetSpec ==
    /\ pc = "saveNetSpec"
    /\ \E ok \in BOOLEAN :
        LET destPath == NetDestPath(s.Id)
            r == saveToCbfs(cbfsFiles, destPath, specBytes, ok)
        IN /\ fault' = (fault \/ ~ok)
           /\ cbfsFiles' = r.files
           /\ \/ r.err /\ Fail /\ UNCHANGED s
              \/ ~r.err /\ s' = [s EXCEPT !.SpecificationNetUrl = CbfsUrl(destPath)]
                        /\ pc' = "edit" /\ UNCHANGED ret
    /\ UNCHANGED <<web, dbSolver, job, specBytes, calls, before, rerun, first>>
    /\ UNCHANGED <<tocVars, refVars, cfgVars, asmVars>>

\* Save, first half: db.Edit
SaveEdit ==
    /\ pc = "edit"
    /\ \E ok \in BOOLEAN :
        LET r == dbEdit(dbSolver, s, ok)
        IN /\ fault' = (fault \/ ~ok)
           /\ dbSolver' = r.doc
           /\ \/ r.err /\ Fail
              \/ ~r.err /\ pc' = "retrieve" /\ UNCHANGED ret
    /\ UNCHANGED <<web, cbfsFiles, job, s, specBytes, calls, before, rerun, first>>
    /\ UNCHANGED <<tocVars, refVars, cfgVars, asmVars>>

\* Save, second half: db.Retrieve of the document, which is returned
SaveRetrieve ==
    /\ pc = "retrieve"
    /\ \E ok \in BOOLEAN :
        /\ fault' = (fault \/ ~ok)
        /\ \/ ~ok /\ Fail /\ UNCHANGED <<job, first>>
           \/ /\ ok
              /\ ret' = [state |-> "ok", solver |-> dbSolver]
              /\ job' = dbSolver
              /\ first' = IF first.set THEN first
                          ELSE [set |-> TRUE, solver |-> dbSolver, files |-> cbfsFiles]
              /\ pc' = "idle"
    /\ UNCHANGED <<web, dbSolver, cbfsFiles, s, specBytes, calls, before, rerun>>
    /\ UNCHANGED <<tocVars, refVars, cfgVars, asmVars>>

\* the solver as inserted, its specifications on two http servers, cbfs empty
Init ==
    /\ web \in [{SolverSpecUrl, NetSpecUrl} -> SolverPages \cup NetPages]
    /\ web[SolverSpecUrl] \in SolverPages
    /\ web[NetSpecUrl] \in NetPages
    /\ dbSolver = [Id |-> SolverId, SpecificationUrl |-> SolverSpecUrl,
                   SpecificationNetUrl |-> NetSpecUrl, Rev |-> 1]
    /\ cbfsFiles = [path \in CbfsPaths |-> NoBytes]
    /\ job = dbSolver
    /\ s = NoSolver
    /\ specBytes = NoBytes
    /\ pc = "idle"
    /\ ret = [state |-> "none", solver |-> NoSolver]
    /\ calls = 0
    /\ before = NoSolver
    /\ rerun = FALSE
    /\ fault = FALSE
    /\ first = [set |-> FALSE, solver |-> NoSolver, files |-> <<>>]
    /\ TocIdle
    /\ RefIdle
    /\ CfgIdle
    /\ AsmIdle

Next ==
    \/ Call
    \/ GetSolverSpec
    \/ SaveSolverSpec
    \/ GetNetSpec
    \/ SaveNetSpec
    \/ SaveEdit
    \/ SaveRetrieve

Spec == Init /\ [][Next]_vars

-----------------------------------------------------------------------------
(* Properties of DownloadSpecToCbfs *)

\* a cbfs url
IsCbfsUrl(url) == HasPrefix(url, CBFS_URI_PREFIX)

\* the file under the path is a rewritten solver specification
RewrittenSolverAt(files, path) ==
    /\ path \in DOMAIN files
    /\ files[path].kind = "solver"
    /\ files[path].msg.Net = "solver-net.prototxt"
    /\ files[path].msg.SnapshotPrefix = "snapshot"

\* the file under the path is a rewritten net specification
RewrittenNetAt(files, path) ==
    /\ path \in DOMAIN files
    /\ files[path].kind = "net"
    /\ \A i \in 1..Len(files[path].msg.Layers) :
        LET layer == files[path].msg.Layers[i]
        IN /\ layer.Type = "IMAGE_DATA" /\ (InPhase(layer, "TRAIN") \/ InPhase(layer, "TEST"))
                => layer.ImageDataSource \in {TRAINING_INDEX, TESTING_INDEX}
           /\ layer.Type = "DATA" /\ (InPhase(layer, "TRAIN") \/ InPhase(layer, "TEST"))
                => layer.DataSource \in {TRAINING_DIR, TESTING_DIR}

\* both urls of the document can be fetched: an http url is one a server
\* serves, a cbfs url is the one of the solver's own path, which holds the
\* rewritten specification
UrlsResolve(doc, files) ==
    /\ IF IsCbfsUrl(doc.SpecificationUrl)
       THEN /\ doc.SpecificationUrl = CBFS_URI_PREFIX \o doc.Id \o "/solver.prototxt"
            /\ RewrittenSolverAt(files, doc.Id \o "/solver.prototxt")
       ELSE doc.SpecificationUrl \in DOMAIN web
    /\ IF IsCbfsUrl(doc.SpecificationNetUrl)
       THEN /\ doc.SpecificationNetUrl = CBFS_URI_PREFIX \o doc.Id \o "/solver-net.prototxt"
            /\ RewrittenNetAt(files, doc.Id \o "/solver-net.prototxt")
       ELSE doc.SpecificationNetUrl \in DOMAIN web

C2_ErrorLeavesDocument ==
    (pc = "idle" /\ ret.state = "err") =>
        /\ dbSolver.SpecificationUrl = before.SpecificationUrl
        /\ dbSolver.SpecificationNetUrl = before.SpecificationNetUrl

\* C4: DownloadSpecToCbfs called again on the solver a successful call
\* returned, with the servers, cbfs and the database answering, succeeds and
\* returns a solver with the same two cbfs urls, whose files in cbfs hold the
\* bytes the first call stored.
C4_RerunIsIdempotent ==
    (pc = "idle" /\ rerun /\ ~fault /\ ret.state # "none") =>
        /\ ret.state = "ok"
        /\ ret.solver.SpecificationUrl = first.solver.SpecificationUrl
        /\ ret.solver.SpecificationNetUrl = first.solver.SpecificationNetUrl
        /\ cbfsFiles = first.files

-----------------------------------------------------------------------------
(* SaveTrainTestData: download and untar both artifacts, write both tocs *)

\* the work directory the call is given
WorkDirectory == "/tmp/elastic-thought"

\* artificactPaths: the training artifact, then the test artifact
artificactPaths == <<"training", "testing">>

trainingArtifact == artificactPaths[1]

\* the entry names an archive may hold
ArchiveTocs == {<<>>, <<"A/x.png">>, <<"A/x.png", "B/z.png">>}

\* untarGzWithToc: the entry names in archive order; with an error, those
\* extracted before it
untarGzWithToc(entries, ok, n) ==
    IF ok THEN [err |-> FALSE, toc |-> entries]
    ELSE [err |-> TRUE, toc |-> SubSeq(entries, 1, n)]

NoFile == [exists |-> FALSE, lines |-> <<>>]

\* writeTocToFile: the lines in order, or an error of os.Create ("create"),
\* or an error of a write that leaves the first n lines ("write")
writeTocToFile(files, toc, destFile, outcome, n) ==
    IF outcome = "create" THEN [err |-> TRUE, files |-> files]
    ELSE IF outcome = "write"
    THEN [err |-> TRUE,
          files |-> [files EXCEPT ![destFile] =
                        [exists |-> TRUE, lines |-> SubSeq(toc, 1, n)]]]
    ELSE [err |-> FALSE,
          files |-> [files EXCEPT ![destFile] = [exists |-> TRUE, lines |-> toc]]]

\* subdirectory and destTocFile of an artifact
SubdirectoryOf(artificactPath) ==
    IF artificactPath = trainingArtifact THEN TRAINING_DIR ELSE TESTING_DIR

DestTocFileOf(artificactPath) ==
    IF artificactPath = trainingArtifact
    THEN Join(WorkDirectory, TRAINING_INDEX)
    ELSE Join(WorkDirectory, TESTING_INDEX)

Logged(step, ok) ==
    asmLog' = Append(asmLog, [artifact |-> artificactPaths[asmSplit],
                              step |-> step, ok |-> ok])

\* return nil, err
AsmFail ==
    /\ asmRet' = [state |-> "err", labels |-> <<>>]
    /\ asmPc' = "done"

\* the loop goes on after writeTocToFile, whatever it returned
AsmGoOnAnyway(err) ==
    IF asmSplit < Len(artificactPaths)
    THEN /\ asmSplit' = asmSplit + 1
         /\ asmPc' = "client"
         /\ UNCHANGED asmRet
    ELSE /\ asmRet' = [state |-> "ok", labels |-> trainingLabelIndex]
         /\ asmPc' = "done"
         /\ UNCHANGED asmSplit

\* cbfsclient.New
AsmNewClient ==
    /\ asmPc = "client"
    /\ \E ok \in BOOLEAN :
        /\ Logged("client", ok)
        /\ \/ ~ok /\ AsmFail
           \/ ok /\ asmPc' = "get" /\ UNCHANGED asmRet
    /\ UNCHANGED <<archives, asmSplit, asmToc, trainingLabelIndex, workFiles>>
    /\ UNCHANGED <<tocVars, refVars, cfgVars, prepVars>>

\* cbfs.Get of the artifact
AsmGet ==
    /\ asmPc = "get"
    /\ \E ok \in BOOLEAN :
        /\ Logged("get", ok)
        /\ \/ ~ok /\ AsmFail
           \/ ok /\ asmPc' = "create" /\ UNCHANGED asmRet
    /\ UNCHANGED <<archives, asmSplit, asmToc, trainingLabelIndex, workFiles>>
    /\ UNCHANGED <<tocVars, refVars, cfgVars, prepVars>>

\* os.Create of the file the raw artifact is copied to
AsmCreate ==
    /\ asmPc = "create"
    /\ \E ok \in BOOLEAN :
        /\ Logged("create", ok)
        /\ \/ ~ok /\ AsmFail
           \/ ok /\ asmPc' = "untar" /\ UNCHANGED asmRet
    /\ UNCHANGED <<archives, asmSplit, asmToc, trainingLabelIndex, workFiles>>
    /\ UNCHANGED <<tocVars, refVars, cfgVars, prepVars>>

\* untarGzWithToc, addLabelsToToc, addParentDirToToc, and only then the
\* error of untarGzWithToc
AsmUntar ==
    /\ asmPc = "untar"
    /\ LET artificactPath == artificactPaths[asmSplit]
           entries == archives[artificactPath]
       IN \E ok \in BOOLEAN, n \in 0..Len(entries) :
            /\ ~ok => n < Len(entries) \/ entries = <<>>
            /\ ok => n = 0
            /\ LET r == untarGzWithToc(entries, ok, n)
                   labelled == addLabelsToToc(r.toc)
                   tocWithSubdirs == addParentDirToToc(labelled.tocWithLabels,
                                                       SubdirectoryOf(artificactPath))
               IN /\ asmToc' = tocWithSubdirs.toc
                  /\ trainingLabelIndex' =
                        IF artificactPath = trainingArtifact
                        THEN labelled.labels ELSE trainingLabelIndex
                  /\ Logged("untar", ~r.err)
                  /\ \/ r.err /\ AsmFail
                     \/ ~r.err /\ asmPc' = "writeToc" /\ UNCHANGED asmRet
    /\ UNCHANGED <<archives, asmSplit, workFiles>>
    /\ UNCHANGED <<tocVars, refVars, cfgVars, prepVars>>

\* writeTocToFile, whose error is not looked at
AsmWriteToc ==
    /\ asmPc = "writeToc"
    /\ \E outcome \in {"ok", "create", "write"}, n \in 0..Len(asmToc) :
        /\ outcome = "write" => n < Len(asmToc)
        /\ outcome # "write" => n = 0
        /\ LET r == writeTocToFile(workFiles, asmToc,
                                   DestTocFileOf(artificactPaths[asmSplit]), outcome, n)
           IN /\ workFiles' = r.files
              /\ Logged("writeToc", ~r.err)
              /\ AsmGoOnAnyway(r.err)
    /\ UNCHANGED <<archives, asmToc, trainingLabelIndex>>
    /\ UNCHANGED <<tocVars, refVars, cfgVars, prepVars>>

\* SaveTrainTestData is entered: both archives are in cbfs, no toc is written
InitAssemble ==
    /\ archives \in [{"training", "testing"} -> ArchiveTocs]
    /\ asmSplit = 1
    /\ asmPc = "client"
    /\ asmToc = <<>>
    /\ trainingLabelIndex = <<>>
    /\ workFiles = [f \in {DestTocFileOf("training"), DestTocFileOf("testing")} |-> NoFile]
    /\ asmRet = [state |-> "none", labels |-> <<>>]
    /\ asmLog = <<>>
    /\ TocIdle
    /\ RefIdle
    /\ CfgIdle
    /\ PrepIdle

NextAssemble == AsmNewClient \/ AsmGet \/ AsmCreate \/ AsmUntar \/ AsmWriteToc

SpecAssemble == InitAssemble /\ [][NextAssemble]_vars

\* the step was made for the artifact and succeeded
Succeeded(artifact, step) ==
    \E i \in 1..Len(asmLog) :
        asmLog[i] = [artifact |-> artifact, step |-> step, ok |-> TRUE]

\* C3: SaveTrainTestData stops at the first error of any step of either
\* artifact (cbfs get, creation of the raw copy, untar, writing the toc) and
\* makes no later step; it returns a label index without an error only if
\* get, untar and the toc write succeeded for the training and then the test
\* artifact; after a failure for the training artifact no step is made for
\* the test artifact.
C3_AssembleStopsAtFirstError ==
    /\ \A i \in 1..Len(asmLog) : ~asmLog[i].ok => i = Len(asmLog)
    /\ asmRet.state = "ok" =>
        \A artifact \in {"training", "testing"}, step \in {"get", "untar", "writeToc"} :
            Succeeded(artifact, step)
    /\ \A i, j \in 1..Len(asmLog) :
        (asmLog[i].artifact = "training" /\ ~asmLog[i].ok) => asmLog[j].artifact # "testing"

====
